---- MODULE Spec2Model ----
(***************************************************************************)
(* Model of the event dispatch core of the moe-serifu-agent runtime:      *)
(* the event dispatch thread (EDT), the handler threads it spawns, the    *)
(* runtime lifecycle (init / quit) and the timer table.                   *)
(***************************************************************************)
EXTENDS Integers, Sequences, FiniteSets, TLC

\* ------------------------------------------------------------------------
\* Bounds
\* ------------------------------------------------------------------------
MaxEvents == 2
MaxPrio == 2
NumTopics == 1
\* timer service: creator calls, events fired, clock range, periods
MaxTimerCalls == 3
MaxFired == 3
MaxTime == 3
MaxPeriod == 2
\* plugin manager: the plugin libraries
NumPlugins == 1
MoreTopics == 1
\* lock protocol: the tasks that call into the event module, the timers due in one tick
NumLockCallers == 3
MaxDue == 3
\* TICK_RESOLUTION in clock steps (one clock step is the default, 10 ms)
TickResolution == 1

Topics == 1..NumTopics
SubTopics == 1..(NumTopics + MoreTopics)
Prios == 1..MaxPrio
EventIds == 1..(IF MaxEvents > MaxFired THEN MaxEvents ELSE MaxFired)
\* tasks that may call quit: 0 is the task that called init, e > 0 is the
\* handler thread spawned for event e
Callers == {0} \cup EventIds
\* a plugin library is known by its path; the name in its Info is its id
Plugins == 1..NumPlugins

VARIABLES
    status,       \* hdl->status
    eventCtx,     \* hdl->event: "null" or "live"
    crashed,      \* the process has been killed by an invalid memory access
    mainPc,       \* position of the task that called init
    edtPc,        \* position of the EDT
    polled,       \* local e of edt_run (0 is NULL)
    dctx,         \* ctx argument of the dispose_handler_context in progress
    queue,        \* ctx->queue, in the order of the queue's comparator, head is top()
    ev,           \* the events created so far; the index is the event's identity
    handlers,     \* ctx->handlers (0 is NULL)
    current,      \* ctx->current_handler (0 is NULL)
    interrupted,  \* ctx->interrupted, the last element is top()
    ctx,          \* the HandlerContext created for each event, with its sync and thread
    quitPc,       \* position of each caller inside msa::quit / event::quit
    evDisposed,   \* how many times each event has been deleted
    discarded,    \* events deleted by edt_dispatch_event for want of a handler
    mutexLive,    \* queue_mutex and timers_mutex have not been destroyed
    timers,       \* ctx->timers, a map from timer id to Timer
    now,          \* the clock (chrono_clock::now())
    lastTick,     \* ctx->last_tick_time
    issued,       \* the ids delay and add_timer have returned, in order
    sched,        \* the last call of schedule that did something: timestamp and result
    fate,         \* what has become of each Timer object, in the order of creation
    loaded,       \* hdl->plugin->loaded: plugin id -> "entry" or "null" (a NULL entry)
    enabled,      \* hdl->plugin->enabled, the ids
    commands,     \* the commands registered in the command registry
    lastOp,       \* the last plugin-manager operation and what the plugin functions did in it
    snap,         \* loaded, enabled and commands as they were before that operation
    lpc,          \* position of each task in the code that takes the two mutexes
    held,         \* the mutexes each task holds, in the order it acquired them
    due           \* timers edt_fire_timers has still to fire in its loop

timerVars == <<timers, now, lastTick, issued, sched, fate>>

pluginVars == <<loaded, enabled, commands, lastOp, snap>>

lockVars == <<lpc, held, due>>

dispatchVars == <<status, eventCtx, mainPc, edtPc, polled, dctx, queue, ev, handlers,
                  current, interrupted, ctx, quitPc, evDisposed, discarded, mutexLive>>

vars == <<status, eventCtx, crashed, mainPc, edtPc, polled, dctx, queue, ev,
          handlers, current, interrupted, ctx, quitPc, evDisposed, discarded,
          mutexLive, timers, now, lastTick, issued, sched, fate,
          loaded, enabled, commands, lastOp, snap, lpc, held, due>>

\* ------------------------------------------------------------------------
\* Data
\* ------------------------------------------------------------------------
NoCtx ==
    [st |-> "none", running |-> FALSE, reap |-> FALSE, func |-> 0,
     susp |-> FALSE, ack |-> FALSE, origin |-> FALSE,
     th |-> "nothread", calls |-> 0, frees |-> 0, pre |-> 0]

\* get_priority(e)
get_priority(e) == ev[e].prio

\* the HandlerSync object (suspend-requested, suspended, syscall-origin)
suspend_handler(c) == [ctx EXCEPT ![c].susp = TRUE]
handler_suspended(c) == ctx[c].ack
resume_handler(cs, c) == [cs EXCEPT ![c].susp = FALSE, ![c].ack = FALSE]
set_handler_syscall_origin(c) == [ctx EXCEPT ![c].origin = TRUE]
handler_syscall_origin(c) == ctx[c].origin

\* std::priority_queue<const Event *>::push: the comparator of the queue is
\* std::less on the pointers, so the place of a new event among the waiting
\* ones is decided by the address the allocator gave it
QueueInsert(q, i, e) == SubSeq(q, 1, i - 1) \o <<e>> \o SubSeq(q, i, Len(q))
push_positions(q, e) == 1..(Len(q) + 1)

Bump(n) == IF n < 2 THEN n + 1 ELSE 2

\* std::map
EmptyMap == [i \in {} |-> 0]
MapPut(m, k, v) == [i \in DOMAIN m \cup {k} |-> IF i = k THEN v ELSE m[i]]
MapErase(m, k) == [i \in DOMAIN m \ {k} |-> m[i]]

\* conversion of a size_t to int16_t
ToInt16(n) == LET m == n % 65536 IN IF m >= 32768 THEN m - 65536 ELSE m

\* delete of the sync and the context (dispose_handler_context, event_start):
\* nothing of the object is left but the thread that ran on it
FreeCtx(cs, c) ==
    [cs EXCEPT ![c] = [NoCtx EXCEPT !.st = "freed", !.th = cs[c].th,
                                    !.calls = cs[c].calls, !.frees = Bump(cs[c].frees)]]

\* delete of an event: nothing of the object is left
DeletedEvent == [topic |-> 0, prio |-> 0]
DeleteEvents(evs, disposed) ==
    [i \in DOMAIN evs |-> IF disposed[i] > 0 THEN DeletedEvent ELSE evs[i]]

\* the trace of an operation of the plugin manager: what each plugin
\* function and the library close did in it ("-" if it was not called),
\* what is_enabled(id) was when quit_func was called, and whether the
\* operation before it was the load that returned the same id
NoTrace ==
    [op |-> "-", id |-> 0, res |-> "-", afterLoad |-> FALSE,
     init |-> "-", dev |-> "-", addcmd |-> "-", out |-> {}, quit |-> "-", close |-> "-",
     quitSeen |-> "-"]

\* create_plugin_context
InitPlugin ==
    /\ loaded = EmptyMap
    /\ enabled = {}
    /\ commands = {}
    /\ lastOp = NoTrace
    /\ snap = [loaded |-> {}, enabled |-> {}, commands |-> {}]

\* tasks of the lock protocol: 0 is the EDT, the others call generate and the
\* timer functions
LockCallers == 1..NumLockCallers
LockTasks == {0} \cup LockCallers

\* no task is inside a locked region
InitLocks ==
    /\ lpc = [t \in LockTasks |-> IF t = 0 THEN "run" ELSE "idle"]
    /\ held = [t \in LockTasks |-> <<>>]
    /\ due = 0

\* no call of schedule yet
NoCall == [ts |-> 0, ret |-> 0 - 2]

Init ==
    /\ status = "CREATED"
    /\ eventCtx = "null"
    /\ crashed = FALSE
    /\ mainPc = "init"
    /\ edtPc = "nothread"
    /\ polled = 0
    /\ dctx = 0
    /\ queue = <<>>
    /\ ev = <<>>
    /\ handlers = [t \in Topics |-> 0]
    /\ current = 0
    /\ interrupted = <<>>
    /\ ctx = [e \in EventIds |-> NoCtx]
    /\ quitPc = [k \in Callers |-> "idle"]
    /\ evDisposed = [e \in EventIds |-> 0]
    /\ discarded = {}
    /\ mutexLive = FALSE
    /\ timers = EmptyMap
    /\ now = 0
    /\ lastTick = 0 - TickResolution
    /\ issued = <<>>
    /\ sched = NoCall
    /\ fate = <<>>
    /\ InitPlugin
    /\ InitLocks

\* ------------------------------------------------------------------------
\* init
\* ------------------------------------------------------------------------
\* event::init called from msa::init: the context is created, then the
\* config is read and the EDT created; on failure msa::init calls quit
EventInit ==
    /\ ~crashed
    /\ mainPc = "init"
    /\ eventCtx' = "live"
    /\ mutexLive' = TRUE
    /\ \E ok \in BOOLEAN :
         IF ok
         THEN /\ edtPc' = "start"
              /\ mainPc' = "ready"
              /\ UNCHANGED quitPc
         ELSE /\ edtPc' = "nothread"
              /\ mainPc' = "initfail"
              /\ quitPc' = [quitPc EXCEPT ![0] = "check"]
    /\ UNCHANGED <<status, crashed, polled, dctx, queue, ev, handlers, current,
                   interrupted, ctx, evDisposed, discarded>>
    /\ UNCHANGED pluginVars
    /\ UNCHANGED lockVars
    /\ UNCHANGED timerVars

\* ------------------------------------------------------------------------
\* subscribe, unsubscribe, generate
\* ------------------------------------------------------------------------
\* msa::init hands the handle to its caller only when it succeeds, and the
\* users of the handle call into the event module only while hdl->event is set
HandleInUse == mainPc = "ready" /\ eventCtx = "live"

Subscribe(t) ==
    /\ ~crashed
    /\ HandleInUse
    /\ handlers' = [handlers EXCEPT ![t] = 1]
    /\ UNCHANGED <<status, eventCtx, crashed, mainPc, edtPc, polled, dctx, queue, ev,
                   current, interrupted, ctx, quitPc, evDisposed, discarded, mutexLive>>
    /\ UNCHANGED pluginVars
    /\ UNCHANGED lockVars
    /\ UNCHANGED timerVars

\* (variant: the whole handler table is cleared)
Unsubscribe_ClearsAll(t) ==
    /\ ~crashed
    /\ HandleInUse
    /\ handlers' = [u \in DOMAIN handlers |-> 0]
    /\ UNCHANGED <<status, eventCtx, crashed, mainPc, edtPc, polled, dctx, queue, ev,
                   current, interrupted, ctx, quitPc, evDisposed, discarded, mutexLive>>
    /\ UNCHANGED pluginVars
    /\ UNCHANGED lockVars
    /\ UNCHANGED timerVars

Unsubscribe(t) ==
    /\ ~crashed
    /\ HandleInUse
    /\ handlers' = [handlers EXCEPT ![t] = 0]
    /\ UNCHANGED <<status, eventCtx, crashed, mainPc, edtPc, polled, dctx, queue, ev,
                   current, interrupted, ctx, quitPc, evDisposed, discarded, mutexLive>>
    /\ UNCHANGED pluginVars
    /\ UNCHANGED lockVars
    /\ UNCHANGED timerVars

\* generate / push_event, from any task that holds the handle
GenerateBounded(n, t, p) ==
    /\ ~crashed
    /\ HandleInUse
    /\ mutexLive
    /\ Len(ev) < n
    /\ ev' = Append(ev, [topic |-> t, prio |-> p])
    /\ \E i \in push_positions(queue, Len(ev) + 1) :
         queue' = QueueInsert(queue, i, Len(ev) + 1)
    /\ UNCHANGED <<status, eventCtx, crashed, mainPc, edtPc, polled, dctx, handlers,
                   current, interrupted, ctx, quitPc, evDisposed, discarded, mutexLive>>
    /\ UNCHANGED pluginVars
    /\ UNCHANGED lockVars
    /\ UNCHANGED timerVars

\* generate, for the first MaxEvents events
Generate(t, p) == GenerateBounded(MaxEvents, t, p)

\* ------------------------------------------------------------------------
\* Timer service
\* ------------------------------------------------------------------------
\* Timer::Timer; prio is the priority create() gives the events made from
\* the timer's topic and arguments
NewTimer(period, topic, prio, recurring) ==
    [period |-> period, last_fired |-> now, recurring |-> recurring,
     topic |-> topic, prio |-> prio, serial |-> Len(fate) + 1]

\* the one-shot Timer object the table loses when timers[id] is assigned or
\* erased is recorded as such, the one that comes in as armed
Forget(ft, tm, id, how) ==
    IF id \in DOMAIN tm /\ ~tm[id].recurring THEN [ft EXCEPT ![tm[id].serial] = how] ELSE ft

\* the id delay and add_timer give the new timer
NewTimerId == ToInt16(Cardinality(DOMAIN timers))

\* delay, under the timer lock: the assignment to timers[id] replaces
\* whatever Timer the table held under that id
DelayBody(period, topic, prio) ==
    /\ timers' = MapPut(timers, NewTimerId, NewTimer(period, topic, prio, FALSE))
    /\ issued' = Append(issued, NewTimerId)
    /\ fate' = Append(Forget(fate, timers, NewTimerId, "replaced"), "armed")

Delay(period, topic, prio) ==
    /\ ~crashed
    /\ HandleInUse
    /\ mutexLive
    /\ Len(issued) < MaxTimerCalls
    /\ DelayBody(period, topic, prio)
    /\ UNCHANGED sched
    /\ UNCHANGED <<status, eventCtx, crashed, mainPc, edtPc, polled, dctx, queue, ev, handlers,
                   current, interrupted, ctx, quitPc, evDisposed, discarded, mutexLive,
                   now, lastTick>>
    /\ UNCHANGED pluginVars
    /\ UNCHANGED lockVars

\* the clock of the model counts seconds: time(NULL) is its reading, and
\* std::chrono::seconds(n) is a duration of n of its steps
time_now == now
seconds(n) == n

\* (variant: a timestamp equal to the current time is accepted)
NotInFuture_Strict(timestamp) == time_now > timestamp

\* schedule, the test of the timestamp against the current time
NotInFuture(timestamp) == time_now >= timestamp

\* schedule: -1 for a timestamp that is not in the future, otherwise the
\* call of delay
Schedule(timestamp, topic, prio) ==
    /\ ~crashed
    /\ HandleInUse
    /\ IF NotInFuture(timestamp)
       THEN /\ sched' = [ts |-> timestamp, ret |-> 0 - 1]
            /\ UNCHANGED <<timers, issued, fate>>
       ELSE /\ mutexLive
            /\ Len(issued) < MaxTimerCalls
            /\ DelayBody(seconds(timestamp), topic, prio)
            /\ sched' = [ts |-> timestamp, ret |-> NewTimerId]
    /\ UNCHANGED <<status, eventCtx, crashed, mainPc, edtPc, polled, dctx, queue, ev, handlers,
                   current, interrupted, ctx, quitPc, evDisposed, discarded, mutexLive,
                   now, lastTick>>
    /\ UNCHANGED pluginVars
    /\ UNCHANGED lockVars

\* add_timer, under the timer lock
AddTimer(period, topic, prio) ==
    /\ ~crashed
    /\ HandleInUse
    /\ mutexLive
    /\ Len(issued) < MaxTimerCalls
    /\ timers' = MapPut(timers, NewTimerId, NewTimer(period, topic, prio, TRUE))
    /\ issued' = Append(issued, NewTimerId)
    /\ fate' = Append(Forget(fate, timers, NewTimerId, "replaced"), "recurring")
    /\ UNCHANGED <<status, eventCtx, crashed, mainPc, edtPc, polled, dctx, queue, ev, handlers,
                   current, interrupted, ctx, quitPc, evDisposed, discarded, mutexLive,
                   now, lastTick, sched>>
    /\ UNCHANGED pluginVars
    /\ UNCHANGED lockVars

\* remove_timer, under the timer lock; an absent id throws and changes nothing
RemoveTimer(id) ==
    /\ ~crashed
    /\ HandleInUse
    /\ mutexLive
    /\ timers' = IF id \in DOMAIN timers THEN MapErase(timers, id) ELSE timers
    /\ fate' = Forget(fate, timers, id, "removed")
    /\ UNCHANGED <<status, eventCtx, crashed, mainPc, edtPc, polled, dctx, queue, ev, handlers,
                   current, interrupted, ctx, quitPc, evDisposed, discarded, mutexLive,
                   now, lastTick, issued, sched>>
    /\ UNCHANGED pluginVars
    /\ UNCHANGED lockVars

\* time passes
ClockAdvance ==
    /\ ~crashed
    /\ now < MaxTime
    /\ now' = now + 1
    /\ UNCHANGED <<status, eventCtx, crashed, mainPc, edtPc, polled, dctx, queue, ev, handlers,
                   current, interrupted, ctx, quitPc, evDisposed, discarded, mutexLive,
                   timers, lastTick, issued, sched, fate>>
    /\ UNCHANGED pluginVars
    /\ UNCHANGED lockVars

\* ------------------------------------------------------------------------
\* The EDT
\* ------------------------------------------------------------------------
\* edt_start, first statement
EdtStart ==
    /\ ~crashed
    /\ edtPc = "start"
    /\ status' = "RUNNING"
    /\ edtPc' = "loop"
    /\ UNCHANGED <<eventCtx, crashed, mainPc, polled, dctx, queue, ev, handlers, current,
                   interrupted, ctx, quitPc, evDisposed, discarded, mutexLive>>
    /\ UNCHANGED pluginVars
    /\ UNCHANGED lockVars
    /\ UNCHANGED timerVars

\* edt_start, the loop condition: another pass of edt_run or edt_cleanup
LoopTarget == IF status # "STOP_REQUESTED" THEN "poll" ELSE "cl_cur"

\* edt_start, the loop condition before the first pass
EdtLoop ==
    /\ ~crashed
    /\ edtPc = "loop"
    /\ edtPc' = LoopTarget
    /\ UNCHANGED <<status, eventCtx, crashed, mainPc, polled, dctx, queue, ev, handlers,
                   current, interrupted, ctx, quitPc, evDisposed, discarded, mutexLive>>
    /\ UNCHANGED pluginVars
    /\ UNCHANGED lockVars
    /\ UNCHANGED timerVars

\* the positions at which the EDT works on hdl->event
EdtWorking ==
    edtPc \in {"poll", "intr_wait", "lookup", "spawn", "reap", "resume",
               "tick", "cl_cur", "cl_wait", "cl_intr", "cl_rest"}

\* an EDT step on a dispatch context that quit has already deleted is an
\* invalid access: the process may die of it (or the step runs on the stale
\* memory, which is what the other EDT actions do)
EdtUseAfterDispose ==
    /\ ~crashed
    /\ EdtWorking
    /\ eventCtx # "live"
    /\ crashed' = TRUE
    /\ UNCHANGED <<status, eventCtx, mainPc, edtPc, polled, dctx, queue, ev, handlers,
                   current, interrupted, ctx, quitPc, evDisposed, discarded, mutexLive>>
    /\ UNCHANGED pluginVars
    /\ UNCHANGED lockVars
    /\ UNCHANGED timerVars

\* (variant: a head of equal priority is dequeued)
PollResult_EqualPreempts ==
    IF queue = <<>> THEN 0
    ELSE IF current # 0 /\ get_priority(current) > get_priority(Head(queue)) THEN 0
    ELSE Head(queue)

\* the event edt_poll_event_queue returns (0 is NULL)
PollResult ==
    IF queue = <<>> THEN 0
    ELSE IF current # 0 /\ get_priority(current) >= get_priority(Head(queue)) THEN 0
    ELSE Head(queue)

\* edt_dispatch_event, first test, and the suspend request of
\* edt_interrupt_handler: the position the EDT goes to with the event e
EdtDispatch(e) ==
    IF e = 0 THEN "reap"
    ELSE IF current # 0 THEN "intr_wait"
    ELSE "lookup"

\* edt_poll_event_queue, under the queue lock, the test of edt_run on its
\* result and the start of edt_dispatch_event
EdtPoll ==
    /\ ~crashed
    /\ edtPc = "poll"
    /\ polled' = PollResult
    /\ queue' = IF PollResult # 0 THEN Tail(queue) ELSE queue
    /\ ctx' = IF EdtDispatch(PollResult) = "intr_wait" THEN suspend_handler(current) ELSE ctx
    /\ edtPc' = EdtDispatch(PollResult)
    /\ UNCHANGED <<status, eventCtx, crashed, mainPc, dctx, ev, handlers, current,
                   interrupted, quitPc, evDisposed, discarded, mutexLive>>
    /\ UNCHANGED pluginVars
    /\ UNCHANGED lockVars
    /\ UNCHANGED timerVars

\* (variant: the wait loop is left out)
InterruptWaitOver_NoWait == TRUE

\* the condition that ends the wait loop of edt_interrupt_handler
InterruptWaitOver == handler_suspended(current)

\* (variant: the context is pushed once suspension has been requested)
EdtInterruptWait_OnRequest ==
    /\ ~crashed
    /\ edtPc = "intr_wait"
    /\ ctx[current].susp
    /\ interrupted' = Append(interrupted, current)
    /\ current' = 0
    /\ edtPc' = "lookup"
    /\ UNCHANGED <<status, eventCtx, crashed, mainPc, polled, dctx, queue, ev, handlers,
                   ctx, quitPc, evDisposed, discarded, mutexLive>>
    /\ UNCHANGED pluginVars
    /\ UNCHANGED lockVars
    /\ UNCHANGED timerVars

\* edt_interrupt_handler, after the wait loop
EdtInterruptWait ==
    /\ ~crashed
    /\ edtPc = "intr_wait"
    /\ InterruptWaitOver
    /\ interrupted' = Append(interrupted, current)
    /\ current' = 0
    /\ edtPc' = "lookup"
    /\ UNCHANGED <<status, eventCtx, crashed, mainPc, polled, dctx, queue, ev, handlers,
                   ctx, quitPc, evDisposed, discarded, mutexLive>>
    /\ UNCHANGED pluginVars
    /\ UNCHANGED lockVars
    /\ UNCHANGED timerVars

\* (variant: the handler is not tested for NULL)
EdtLookup_NoNullTest ==
    /\ ~crashed
    /\ edtPc = "lookup"
    /\ edtPc' = "spawn"
    /\ UNCHANGED <<status, eventCtx, crashed, mainPc, dctx, queue, ev, handlers, current,
                   interrupted, ctx, quitPc, mutexLive, polled, evDisposed, discarded>>
    /\ UNCHANGED pluginVars
    /\ UNCHANGED lockVars
    /\ UNCHANGED timerVars

\* edt_dispatch_event, the handler lookup; without a handler the event is deleted
EdtLookup ==
    /\ ~crashed
    /\ edtPc = "lookup"
    /\ IF handlers[ev[polled].topic] # 0
       THEN /\ edtPc' = "spawn"
            /\ UNCHANGED <<polled, evDisposed, discarded>>
       ELSE /\ evDisposed' = [evDisposed EXCEPT ![polled] = Bump(@)]
            /\ discarded' = discarded \cup {polled}
            /\ polled' = 0
            /\ edtPc' = "reap"
    /\ ev' = DeleteEvents(ev, evDisposed')
    /\ UNCHANGED <<status, eventCtx, crashed, mainPc, dctx, queue, handlers, current,
                   interrupted, ctx, quitPc, mutexLive>>
    /\ UNCHANGED pluginVars
    /\ UNCHANGED lockVars
    /\ UNCHANGED timerVars

\* the context edt_interrupt_handler has pushed on the stack to make room
\* for the handler about to be spawned (0 if the slot was empty)
Preempted == IF interrupted # <<>> THEN interrupted[Len(interrupted)] ELSE 0

\* edt_spawn_handler: the handler function is read from the map again; the
\* thread may fail to start
EdtSpawn ==
    /\ ~crashed
    /\ edtPc = "spawn"
    /\ \E started \in BOOLEAN :
         ctx' = [ctx EXCEPT ![polled] =
                   [NoCtx EXCEPT !.st = "live",
                                 !.func = handlers[ev[polled].topic],
                                 !.running = started,
                                 !.pre = Preempted,
                                 !.th = IF started THEN "created" ELSE "nothread"]]
    /\ current' = polled
    /\ polled' = 0
    /\ edtPc' = "reap"
    /\ UNCHANGED <<status, eventCtx, crashed, mainPc, dctx, queue, ev, handlers,
                   interrupted, quitPc, evDisposed, discarded, mutexLive>>
    /\ UNCHANGED pluginVars
    /\ UNCHANGED lockVars
    /\ UNCHANGED timerVars

\* dispose_handler_context, its last test: the event, the sync and the
\* context are deleted unless the handler body has been told to do it
DisposeUnlessReap(cs, c) == IF cs[c].reap THEN cs ELSE FreeCtx(cs, c)
DisposedEvents(cs, c) ==
    IF cs[c].reap THEN evDisposed ELSE [evDisposed EXCEPT ![c] = Bump(@)]

\* edt_run: the current handler has finished
EdtReap ==
    /\ ~crashed
    /\ edtPc = "reap"
    /\ IF current # 0 /\ ~ctx[current].running
       THEN /\ ctx' = DisposeUnlessReap(ctx, current)
            /\ evDisposed' = DisposedEvents(ctx, current)
            /\ current' = 0
       ELSE UNCHANGED <<ctx, evDisposed, current>>
    /\ edtPc' = "resume"
    /\ ev' = DeleteEvents(ev, evDisposed')
    /\ UNCHANGED <<status, eventCtx, crashed, mainPc, polled, dctx, queue, handlers,
                   interrupted, quitPc, discarded, mutexLive>>
    /\ UNCHANGED pluginVars
    /\ UNCHANGED lockVars
    /\ UNCHANGED timerVars

\* (variant: the handler at the bottom of the stack is loaded)
EdtResume_FromBottom ==
    /\ ~crashed
    /\ edtPc = "resume"
    /\ IF current = 0 /\ interrupted # <<>>
       THEN /\ ctx' = resume_handler(ctx, interrupted[1])
            /\ current' = interrupted[1]
            /\ interrupted' = Tail(interrupted)
       ELSE UNCHANGED <<ctx, current, interrupted>>
    /\ edtPc' = "tick"
    /\ UNCHANGED <<status, eventCtx, crashed, mainPc, polled, dctx, queue, ev, handlers,
                   quitPc, evDisposed, discarded, mutexLive>>
    /\ UNCHANGED pluginVars
    /\ UNCHANGED lockVars
    /\ UNCHANGED timerVars

\* edt_run: load the next interrupted handler
EdtResume ==
    /\ ~crashed
    /\ edtPc = "resume"
    /\ IF current = 0 /\ interrupted # <<>>
       THEN /\ ctx' = resume_handler(ctx, interrupted[Len(interrupted)])
            /\ current' = interrupted[Len(interrupted)]
            /\ interrupted' = SubSeq(interrupted, 1, Len(interrupted) - 1)
       ELSE UNCHANGED <<ctx, current, interrupted>>
    /\ edtPc' = "tick"
    /\ UNCHANGED <<status, eventCtx, crashed, mainPc, polled, dctx, queue, ev, handlers,
                   quitPc, evDisposed, discarded, mutexLive>>
    /\ UNCHANGED pluginVars
    /\ UNCHANGED lockVars
    /\ UNCHANGED timerVars

\* the timers edt_fire_timers finds due
DueTimers(t_now) == {id \in DOMAIN timers : timers[id].last_fired + timers[id].period <= t_now}

Lowest(S) == CHOOSE x \in S : \A y \in S : x <= y

\* edt_fire_timers: the loop over the timers not yet visited, in the order of
\* the map; st holds the timer table, the queue and the events so far.  Each
\* due timer generates its event; a recurring timer is re-armed, a one-shot
\* timer is erased.  generate places the event in the queue (see QueueInsert),
\* so the result is the set of the possible outcomes.
RECURSIVE FireTimers(_, _, _)
FireTimers(ids, st, t_now) ==
    IF ids = {} THEN {st}
    ELSE LET id == Lowest(ids)
             t == st.tm[id]
         IN  IF t.last_fired + t.period <= t_now
             THEN LET e == Len(st.evs) + 1
                      evs2 == Append(st.evs, [topic |-> t.topic, prio |-> t.prio])
                      tm2 == IF t.recurring
                             THEN MapPut(st.tm, id, [t EXCEPT !.last_fired = t_now])
                             ELSE MapErase(st.tm, id)
                  IN  UNION {FireTimers(ids \ {id},
                                        [tm |-> tm2, q |-> QueueInsert(st.q, i, e), evs |-> evs2],
                                        t_now) : i \in push_positions(st.q, e)}
             ELSE FireTimers(ids \ {id}, st, t_now)

\* the one-shot Timer objects that have left the table tm for the table tm2
Gone(ft, tm, tm2, how) ==
    [s \in DOMAIN ft |->
       IF /\ \E id \in DOMAIN tm : tm[id].serial = s /\ ~tm[id].recurring
          /\ ~(\E id \in DOMAIN tm2 : tm2[id].serial = s)
       THEN how ELSE ft[s]]

\* edt_run: timing tasks, then the sleep and the loop condition of edt_start
EdtTick ==
    /\ ~crashed
    /\ edtPc = "tick"
    /\ IF lastTick + TickResolution <= now
       THEN /\ Len(ev) + Cardinality(DueTimers(now)) <= Cardinality(EventIds)
            /\ lastTick' = now
            /\ \E o \in FireTimers(DOMAIN timers, [tm |-> timers, q |-> queue, evs |-> ev], now) :
                 /\ timers' = o.tm
                 /\ queue' = o.q
                 /\ ev' = o.evs
                 /\ fate' = Gone(fate, timers, o.tm, "fired")
       ELSE UNCHANGED <<lastTick, timers, queue, ev, fate>>
    /\ edtPc' = LoopTarget
    /\ UNCHANGED <<status, eventCtx, crashed, mainPc, polled, dctx, handlers, now, issued, sched,
                   current, interrupted, ctx, quitPc, evDisposed, discarded, mutexLive>>
    /\ UNCHANGED pluginVars
    /\ UNCHANGED lockVars

\* dispose_handler_context up to its wait loop, for a context that is running:
\* a suspended handler is resumed, then the EDT waits or leaves the disposal
\* to the handler body
DisposeRunning(c, wait) ==
    LET cs == IF handler_suspended(c) THEN resume_handler(ctx, c) ELSE ctx
    IN  IF wait THEN cs ELSE [cs EXCEPT ![c].reap = TRUE]

\* edt_cleanup: the current handler
EdtCleanupCurrent ==
    /\ ~crashed
    /\ edtPc = "cl_cur"
    /\ IF current = 0
       THEN /\ edtPc' = "cl_intr"
            /\ UNCHANGED <<ctx, evDisposed, dctx>>
       ELSE LET wait == ~handler_syscall_origin(current)
            IN  IF ctx[current].running
                THEN /\ ctx' = DisposeRunning(current, wait)
                     /\ edtPc' = IF wait THEN "cl_wait" ELSE "cl_intr"
                     /\ dctx' = IF wait THEN current ELSE dctx
                     /\ UNCHANGED evDisposed
                ELSE /\ ctx' = DisposeUnlessReap(ctx, current)
                     /\ evDisposed' = DisposedEvents(ctx, current)
                     /\ edtPc' = "cl_intr"
                     /\ UNCHANGED dctx
    /\ ev' = DeleteEvents(ev, evDisposed')
    /\ UNCHANGED <<status, eventCtx, crashed, mainPc, polled, queue, handlers,
                   current, interrupted, quitPc, discarded, mutexLive>>
    /\ UNCHANGED pluginVars
    /\ UNCHANGED lockVars
    /\ UNCHANGED timerVars

\* dispose_handler_context: the end of the wait loop, then the deletion
EdtDisposeWait ==
    /\ ~crashed
    /\ edtPc = "cl_wait"
    /\ ~ctx[dctx].running
    /\ ctx' = DisposeUnlessReap(ctx, dctx)
    /\ evDisposed' = DisposedEvents(ctx, dctx)
    /\ dctx' = 0
    /\ edtPc' = "cl_intr"
    /\ ev' = DeleteEvents(ev, evDisposed')
    /\ UNCHANGED <<status, eventCtx, crashed, mainPc, polled, queue, handlers,
                   current, interrupted, quitPc, discarded, mutexLive>>
    /\ UNCHANGED pluginVars
    /\ UNCHANGED lockVars
    /\ UNCHANGED timerVars

\* (variant: the interrupted handlers are not waited for)
EdtCleanupInterrupted_NoWait ==
    /\ ~crashed
    /\ edtPc = "cl_intr"
    /\ IF interrupted = <<>>
       THEN /\ edtPc' = "cl_rest"
            /\ UNCHANGED <<ctx, evDisposed, dctx, interrupted>>
       ELSE LET c == interrupted[Len(interrupted)]
            IN  /\ interrupted' = SubSeq(interrupted, 1, Len(interrupted) - 1)
                /\ IF ctx[c].running
                   THEN /\ ctx' = DisposeRunning(c, FALSE)
                        /\ edtPc' = "cl_intr"
                        /\ UNCHANGED <<evDisposed, dctx>>
                   ELSE /\ ctx' = DisposeUnlessReap(ctx, c)
                        /\ evDisposed' = DisposedEvents(ctx, c)
                        /\ edtPc' = "cl_intr"
                        /\ UNCHANGED dctx
    /\ ev' = DeleteEvents(ev, evDisposed')
    /\ UNCHANGED <<status, eventCtx, crashed, mainPc, polled, queue, handlers,
                   current, quitPc, discarded, mutexLive>>
    /\ UNCHANGED pluginVars
    /\ UNCHANGED lockVars
    /\ UNCHANGED timerVars

\* edt_cleanup: the interrupted stack, from the top
EdtCleanupInterrupted ==
    /\ ~crashed
    /\ edtPc = "cl_intr"
    /\ IF interrupted = <<>>
       THEN /\ edtPc' = "cl_rest"
            /\ UNCHANGED <<ctx, evDisposed, dctx, interrupted>>
       ELSE LET c == interrupted[Len(interrupted)]
            IN  /\ interrupted' = SubSeq(interrupted, 1, Len(interrupted) - 1)
                /\ IF ctx[c].running
                   THEN /\ ctx' = DisposeRunning(c, TRUE)
                        /\ dctx' = c
                        /\ edtPc' = "cl_wait"
                        /\ UNCHANGED evDisposed
                   ELSE /\ ctx' = DisposeUnlessReap(ctx, c)
                        /\ evDisposed' = DisposedEvents(ctx, c)
                        /\ edtPc' = "cl_intr"
                        /\ UNCHANGED dctx
    /\ ev' = DeleteEvents(ev, evDisposed')
    /\ UNCHANGED <<status, eventCtx, crashed, mainPc, polled, queue, handlers,
                   current, quitPc, discarded, mutexLive>>
    /\ UNCHANGED pluginVars
    /\ UNCHANGED lockVars
    /\ UNCHANGED timerVars

\* edt_cleanup: the mutexes are destroyed, the queue and the timer table are
\* emptied; the EDT ends
EdtCleanupRest ==
    /\ ~crashed
    /\ edtPc = "cl_rest"
    /\ mutexLive' = FALSE
    /\ timers' = EmptyMap
    /\ fate' = Gone(fate, timers, EmptyMap, "cleared")
    /\ UNCHANGED <<now, lastTick, issued, sched>>
    /\ evDisposed' = [e \in EventIds |->
                        IF \E i \in 1..Len(queue) : queue[i] = e
                        THEN Bump(evDisposed[e]) ELSE evDisposed[e]]
    /\ queue' = <<>>
    /\ edtPc' = "done"
    /\ ev' = DeleteEvents(ev, evDisposed')
    /\ UNCHANGED <<status, eventCtx, crashed, mainPc, polled, dctx, handlers,
                   current, interrupted, ctx, quitPc, discarded>>
    /\ UNCHANGED pluginVars
    /\ UNCHANGED lockVars

\* ------------------------------------------------------------------------
\* Handler threads (event_start)
\* ------------------------------------------------------------------------
\* event_start up to the call of the handler function: the context is read
\* from the handler slot (it is the thread's own context, see
\* StartedThreadIsCurrent); a NULL context or function pointer is an invalid
\* access
HStart(c) ==
    /\ ~crashed
    /\ ctx[c].th = "created"
    /\ IF current = 0 \/ ctx[current].func = 0
       THEN /\ crashed' = TRUE
            /\ UNCHANGED ctx
       ELSE /\ ctx' = [ctx EXCEPT ![c].th = "body", ![current].calls = Bump(@)]
            /\ UNCHANGED crashed
    /\ UNCHANGED <<status, eventCtx, mainPc, edtPc, polled, dctx, queue, ev, handlers,
                   current, interrupted, quitPc, evDisposed, discarded, mutexLive>>
    /\ UNCHANGED pluginVars
    /\ UNCHANGED lockVars
    /\ UNCHANGED timerVars

\* the handler body reaches a checkpoint with a suspend request pending and
\* acknowledges it
HAck(c) ==
    /\ ~crashed
    /\ ctx[c].th = "body"
    /\ ctx[c].susp
    /\ ctx' = [ctx EXCEPT ![c].ack = TRUE, ![c].th = "suspended"]
    /\ UNCHANGED <<status, eventCtx, crashed, mainPc, edtPc, polled, dctx, queue, ev,
                   handlers, current, interrupted, quitPc, evDisposed, discarded, mutexLive>>
    /\ UNCHANGED pluginVars
    /\ UNCHANGED lockVars
    /\ UNCHANGED timerVars

\* the suspended handler body sees that it has been resumed
HResume(c) ==
    /\ ~crashed
    /\ ctx[c].th = "suspended"
    /\ ~ctx[c].ack
    /\ ctx' = [ctx EXCEPT ![c].th = "body"]
    /\ UNCHANGED <<status, eventCtx, crashed, mainPc, edtPc, polled, dctx, queue, ev,
                   handlers, current, interrupted, quitPc, evDisposed, discarded, mutexLive>>
    /\ UNCHANGED pluginVars
    /\ UNCHANGED lockVars
    /\ UNCHANGED timerVars

\* the handler function returns and event_start ends: the context is
\* deleted here if reap_in_handler is set, otherwise running is cleared
HReturn(c) ==
    /\ ~crashed
    /\ ctx[c].th = "body"
    /\ IF ctx[c].reap
       THEN /\ ctx' = [FreeCtx(ctx, c) EXCEPT ![c].th = "exit"]
            /\ evDisposed' = [evDisposed EXCEPT ![c] = Bump(@)]
       ELSE /\ ctx' = [ctx EXCEPT ![c].running = FALSE, ![c].th = "exit"]
            /\ UNCHANGED evDisposed
    /\ ev' = DeleteEvents(ev, evDisposed')
    /\ UNCHANGED <<status, eventCtx, crashed, mainPc, edtPc, polled, dctx, queue,
                   handlers, current, interrupted, quitPc, discarded, mutexLive>>
    /\ UNCHANGED pluginVars
    /\ UNCHANGED lockVars
    /\ UNCHANGED timerVars

\* ------------------------------------------------------------------------
\* quit
\* ------------------------------------------------------------------------
\* msa::quit, the test of hdl->event
MsaQuitEnter(k) ==
    quitPc' = [quitPc EXCEPT ![k] = IF eventCtx # "null" THEN "check" ELSE "returned"]

\* the task that called init calls msa::quit
MainQuit ==
    /\ ~crashed
    /\ mainPc = "ready"
    /\ quitPc[0] = "idle"
    /\ MsaQuitEnter(0)
    /\ UNCHANGED <<status, eventCtx, crashed, mainPc, edtPc, polled, dctx, queue, ev,
                   handlers, current, interrupted, ctx, evDisposed, discarded, mutexLive>>
    /\ UNCHANGED pluginVars
    /\ UNCHANGED lockVars
    /\ UNCHANGED timerVars

\* a handler body calls msa::quit
HQuit(c) ==
    /\ ~crashed
    /\ ctx[c].th = "body"
    /\ quitPc[c] = "idle"
    /\ MsaQuitEnter(c)
    /\ ctx' = [ctx EXCEPT ![c].th = "inquit"]
    /\ UNCHANGED <<status, eventCtx, crashed, mainPc, edtPc, polled, dctx, queue, ev,
                   handlers, current, interrupted, evDisposed, discarded, mutexLive>>
    /\ UNCHANGED pluginVars
    /\ UNCHANGED lockVars
    /\ UNCHANGED timerVars

\* (variant: the test of hdl->event is inverted)
QuitBeforeRunning_Inverted == status = "CREATED" /\ eventCtx = "null"

\* event::quit, the first test: the EDT is taken not to have been started
QuitBeforeRunning == status = "CREATED" /\ eventCtx # "null"

\* dispose_event_dispatch_context, then hdl->event = NULL in msa::quit;
\* disposing a context that another caller has already disposed is an
\* invalid access that may kill the process
DisposeEventCtx ==
    /\ eventCtx' = "null"
    /\ \/ crashed' = crashed
       \/ eventCtx = "null" /\ crashed' = TRUE

\* the return of msa::quit to its caller
QuitReturn(k) ==
    /\ quitPc' = [quitPc EXCEPT ![k] = "returned"]
    /\ ctx' = IF k # 0 THEN [ctx EXCEPT ![k].th = "body"] ELSE ctx

\* event::quit, the first test and the immediate disposal
QuitCheck(k) ==
    /\ ~crashed
    /\ quitPc[k] = "check"
    /\ IF QuitBeforeRunning
       THEN /\ mutexLive' = FALSE
            /\ DisposeEventCtx
            /\ QuitReturn(k)
       ELSE /\ quitPc' = [quitPc EXCEPT ![k] = "origin"]
            /\ UNCHANGED <<mutexLive, eventCtx, crashed, ctx>>
    /\ UNCHANGED <<status, mainPc, edtPc, polled, dctx, queue, ev, handlers, current,
                   interrupted, evDisposed, discarded>>
    /\ UNCHANGED pluginVars
    /\ UNCHANGED lockVars
    /\ UNCHANGED timerVars

\* the status event::quit writes
QuitStatus == "STOP_REQUESTED"

\* event::quit, the comparison of the calling thread with the thread of the
\* current handler, then status = STOP_REQUESTED; with an empty handler slot
\* the comparison reads through a NULL pointer
QuitRequest(k) ==
    /\ ~crashed
    /\ quitPc[k] = "origin"
    /\ IF current = 0
       THEN /\ \/ crashed' = TRUE
               \/ crashed' = crashed
            /\ UNCHANGED ctx
       ELSE /\ ctx' = IF current = k THEN set_handler_syscall_origin(current) ELSE ctx
            /\ UNCHANGED crashed
    /\ status' = QuitStatus
    /\ quitPc' = [quitPc EXCEPT ![k] = "join"]
    /\ UNCHANGED <<eventCtx, mainPc, edtPc, polled, dctx, queue, ev, handlers,
                   current, interrupted, evDisposed, discarded, mutexLive>>
    /\ UNCHANGED pluginVars
    /\ UNCHANGED lockVars
    /\ UNCHANGED timerVars

\* event::quit, the join on the EDT and the disposal of the context
QuitJoin(k) ==
    /\ ~crashed
    /\ quitPc[k] = "join"
    /\ edtPc = "done"
    /\ DisposeEventCtx
    /\ QuitReturn(k)
    /\ UNCHANGED <<status, mainPc, edtPc, polled, dctx, queue, ev, handlers, current,
                   interrupted, evDisposed, discarded, mutexLive>>
    /\ UNCHANGED pluginVars
    /\ UNCHANGED lockVars
    /\ UNCHANGED timerVars

\* ------------------------------------------------------------------------
\* Plugin manager
\* ------------------------------------------------------------------------
\* what a call of a plugin function does: the function is not defined
\* (NULL), returns 0, returns non-zero, throws
Outcomes == {"none", "ok", "fail", "throw"}

\* the manager state an operation works on, and the operation's trace
PState == [loaded |-> loaded, enabled |-> enabled, commands |-> commands, dead |-> crashed]
Out(st, tr) == [st |-> st, tr |-> tr]

\* a call through a NULL PluginEntry is an invalid access: the process dies
Dead(o) == Out([o.st EXCEPT !.dead = TRUE], o.tr)

\* the traces keep the first library close that threw
Closed(tr, r) == IF tr.close = "throw" THEN tr ELSE [tr EXCEPT !.close = r]

\* (variant: the id stays in the loaded map after the close)
CloseAndErase_NoErase(o, id) ==
    IF o.st.dead THEN {o} ELSE {Out(o.st, Closed(o.tr, "throw")), Out(o.st, Closed(o.tr, "ok"))}

\* unload from "PluginEntry *entry = ctx->loaded[id]" on.  operator[] puts a
\* NULL entry into the map when the id is not in it; entry->lib is then read
\* through NULL, and the process dies or goes on with whatever the close of
\* that value does.
CloseAndErase(o, id) ==
    IF o.st.dead THEN {o}
    ELSE IF id \notin DOMAIN o.st.loaded \/ o.st.loaded[id] = "null"
    THEN {Dead(o),
          Out([o.st EXCEPT !.loaded = MapPut(@, id, "null")], Closed(o.tr, "throw")),
          Out([o.st EXCEPT !.loaded = MapErase(@, id)], Closed(o.tr, "ok"))}
    ELSE {Out(o.st, Closed(o.tr, "throw")),
          Out([o.st EXCEPT !.loaded = MapErase(@, id)], Closed(o.tr, "ok"))}

\* unload of a plugin that is not enabled
UnloadNotEnabled(o, id) ==
    IF o.st.dead \/ id \notin DOMAIN o.st.loaded THEN {o} ELSE CloseAndErase(o, id)

\* is_enabled, as a plugin function called in state st sees it
is_enabled(st, id) == IF id \in st.enabled THEN "yes" ELSE "no"

\* the call of quit_func in state st with result q ("none": quit_func is NULL
\* and is not called)
CallQuit(tr, st, id, q) ==
    IF q = "none" THEN [tr EXCEPT !.quit = q]
    ELSE [tr EXCEPT !.quit = q, !.quitSeen = is_enabled(st, id)]

\* (variant: quit_func is called before the id leaves the enabled map)
DisableOutcomes_QuitFirst(o, id) ==
    IF o.st.dead \/ id \notin o.st.enabled THEN {o}
    ELSE LET st1 == [o.st EXCEPT !.enabled = @ \ {id}]
         IN  UNION {IF q \in {"throw", "fail"}
                    THEN UnloadNotEnabled(Out(st1, CallQuit(o.tr, o.st, id, q)), id)
                    ELSE {Out(st1, CallQuit(o.tr, o.st, id, q))} : q \in Outcomes}

\* disable: the id leaves the enabled map, then quit_func is called; the
\* plugin is unloaded if quit_func throws or returns non-zero
DisableOutcomes(o, id) ==
    IF o.st.dead \/ id \notin o.st.enabled THEN {o}
    ELSE LET st1 == [o.st EXCEPT !.enabled = @ \ {id}]
         IN  UNION {IF q \in {"throw", "fail"}
                    THEN UnloadNotEnabled(Out(st1, CallQuit(o.tr, st1, id, q)), id)
                    ELSE {Out(st1, CallQuit(o.tr, st1, id, q))} : q \in Outcomes}

\* (variant: an enabled plugin is not disabled first)
UnloadOutcomes_NoDisable(o, id) ==
    IF o.st.dead \/ id \notin DOMAIN o.st.loaded THEN {o} ELSE CloseAndErase(o, id)

\* unload: an enabled plugin is disabled first
UnloadOutcomes(o, id) ==
    IF o.st.dead \/ id \notin DOMAIN o.st.loaded THEN {o}
    ELSE UNION {CloseAndErase(o2, id) : o2 \in DisableOutcomes(o, id)}

\* call_plugin_func with the result r of the plugin function: the outcomes,
\* each with the value returned (go)
CallPluginFunc(o, id, r) ==
    LET o1 == Out(o.st, [o.tr EXCEPT !.dev = r])
    IN  IF r \in {"none", "ok"} THEN {[o |-> o1, go |-> TRUE]}
        ELSE IF r = "throw" THEN {[o |-> x, go |-> FALSE] : x \in UnloadOutcomes(o1, id)}
        ELSE {[o |-> o1, go |-> FALSE]}

\* one more call_plugin_func in enable, skipped after a call that returned false
NextPluginFunc(S, id) ==
    UNION {IF x.go THEN UNION {CallPluginFunc(x.o, id, r) : r \in Outcomes} ELSE {x} : x \in S}

\* msa::cmd::register_command for each command of the collection
register_commands(st, new_commands) == [st EXCEPT !.commands = @ \cup new_commands]

\* call_plugin_add_commands: add_commands_func fills the collection
\* new_commands (the plugin id contributes the command id) and returns or
\* throws; the commands are registered when it returned 0
call_plugin_add_commands(o, id) ==
    UNION {LET o1 == Out(o.st, [o.tr EXCEPT !.addcmd = a, !.out = new_commands])
           IN  IF a = "throw" THEN UnloadOutcomes(o1, id)
               ELSE IF a = "fail" THEN {o1}
               ELSE {Out(register_commands(o1.st, new_commands), o1.tr)}
           : a \in Outcomes \ {"none"}, new_commands \in SUBSET {id}}
    \cup {Out(o.st, [o.tr EXCEPT !.addcmd = "none"])}

\* (variant: a non-zero return of init_func is not tested)
EnableOutcomes_InitFailEnables(o, id) ==
    IF id \notin DOMAIN o.st.loaded \/ id \in o.st.enabled
    THEN {Out(o.st, [o.tr EXCEPT !.res = "error"])}
    ELSE IF o.st.loaded[id] = "null" THEN {Dead(o)}
    ELSE UNION {LET o1 == Out(o.st, [o.tr EXCEPT !.init = i])
                IN  IF i = "throw" THEN UnloadOutcomes(o1, id)
                    ELSE LET o2 == Out([o1.st EXCEPT !.enabled = @ \cup {id}], o1.tr)
                             S0 == {[o |-> o2, go |-> TRUE]}
                             S3 == NextPluginFunc(NextPluginFunc(NextPluginFunc(S0, id), id), id)
                         IN  UNION {IF x.go THEN call_plugin_add_commands(x.o, id) ELSE {x.o}
                                    : x \in S3}
                : i \in Outcomes}

\* enable
EnableOutcomes(o, id) ==
    IF id \notin DOMAIN o.st.loaded \/ id \in o.st.enabled
    THEN {Out(o.st, [o.tr EXCEPT !.res = "error"])}
    ELSE IF o.st.loaded[id] = "null" THEN {Dead(o)}
    ELSE UNION {LET o1 == Out(o.st, [o.tr EXCEPT !.init = i])
                IN  IF i = "throw" THEN UnloadOutcomes(o1, id)
                    ELSE IF i = "fail" THEN {o1}
                    ELSE LET o2 == Out([o1.st EXCEPT !.enabled = @ \cup {id}], o1.tr)
                             S0 == {[o |-> o2, go |-> TRUE]}
                             S3 == NextPluginFunc(NextPluginFunc(NextPluginFunc(S0, id), id), id)
                         IN  UNION {IF x.go THEN call_plugin_add_commands(x.o, id) ELSE {x.o}
                                    : x \in S3}
                : i \in Outcomes}

\* what opening the library and msa_plugin_getinfo may do in load
LoadResults == {"ok", "openfail", "nosymbol", "throw", "nullinfo"}

\* load: the plugin is entered in the loaded map unless the library or its
\* getinfo fails or the id is already loaded
LoadOutcomes(o, id) ==
    {IF r = "ok" /\ id \notin DOMAIN o.st.loaded
     THEN Out([o.st EXCEPT !.loaded = MapPut(@, id, "entry")], [o.tr EXCEPT !.res = "ok"])
     ELSE Out(o.st, [o.tr EXCEPT !.res = "bad"]) : r \in LoadResults}

\* an operation of the plugin manager, from its call to its return
PluginOp(outcomes) ==
    /\ \E o \in outcomes :
         /\ loaded' = o.st.loaded
         /\ enabled' = o.st.enabled
         /\ commands' = o.st.commands
         /\ crashed' = o.st.dead
         /\ lastOp' = o.tr
    /\ snap' = [loaded |-> DOMAIN loaded, enabled |-> enabled, commands |-> commands]
    /\ UNCHANGED dispatchVars
    /\ UNCHANGED timerVars
    /\ UNCHANGED lockVars

Start(op, id) ==
    Out(PState, [NoTrace EXCEPT !.op = op, !.id = id, !.res = "done",
                                !.afterLoad = (lastOp.op = "load" /\ lastOp.res = "ok"
                                                 /\ lastOp.id = id)])

Load(id) ==
    /\ ~crashed
    /\ PluginOp(LoadOutcomes(Start("load", id), id))

Unload(id) ==
    /\ ~crashed
    /\ PluginOp(UnloadOutcomes(Start("unload", id), id))

Enable(id) ==
    /\ ~crashed
    /\ PluginOp(EnableOutcomes(Start("enable", id), id))

Disable(id) ==
    /\ ~crashed
    /\ PluginOp(DisableOutcomes(Start("disable", id), id))

NextPlugin ==
    \/ \E id \in Plugins : Load(id)
    \/ \E id \in Plugins : Unload(id)
    \/ \E id \in Plugins : Enable(id)
    \/ \E id \in Plugins : Disable(id)

SpecPlugin == Init /\ [][NextPlugin]_vars

\* ------------------------------------------------------------------------
\* The two mutexes: queue_mutex and timers_mutex.  The steps below are the
\* lock and unlock calls of the event module, task by task; what the locked
\* regions do to the queue and the timer table is in the actions above.
\* ------------------------------------------------------------------------
Holds(t, m) == \E i \in 1..Len(held[t]) : held[t][i] = m
Free(m) == \A t \in LockTasks : ~Holds(t, m)

\* msa::thread::mutex_lock returns once no task holds the mutex
mutex_lock(t, m) ==
    /\ Free(m)
    /\ held' = [held EXCEPT ![t] = Append(@, m)]

mutex_unlock(t, m) ==
    held' = [held EXCEPT ![t] = SelectSeq(@, LAMBDA x : x # m)]

LockFrame ==
    /\ UNCHANGED dispatchVars
    /\ UNCHANGED crashed
    /\ UNCHANGED timerVars
    /\ UNCHANGED pluginVars

\* edt_poll_event_queue: mutex_lock(queue_mutex)
EdtPollLock ==
    /\ lpc[0] = "run"
    /\ mutex_lock(0, "queue")
    /\ lpc' = [lpc EXCEPT ![0] = "polling"]
    /\ UNCHANGED due
    /\ LockFrame

\* (variant: edt_poll_event_queue returns with the queue mutex locked)
EdtPollUnlock_KeepsLock ==
    /\ lpc[0] = "polling"
    /\ lpc' = [lpc EXCEPT ![0] = "tick"]
    /\ UNCHANGED <<held, due>>
    /\ LockFrame

\* edt_poll_event_queue: mutex_unlock(queue_mutex); edt_run goes on to the
\* tick test
EdtPollUnlock ==
    /\ lpc[0] = "polling"
    /\ mutex_unlock(0, "queue")
    /\ lpc' = [lpc EXCEPT ![0] = "tick"]
    /\ UNCHANGED due
    /\ LockFrame

\* edt_run: the tick is not due, edt_fire_timers is not called
EdtSkipTick ==
    /\ lpc[0] = "tick"
    /\ lpc' = [lpc EXCEPT ![0] = "run"]
    /\ UNCHANGED <<held, due>>
    /\ LockFrame

\* edt_fire_timers: mutex_lock(timers_mutex); n timers of the table are due
EdtFireLock(n) ==
    /\ lpc[0] = "tick"
    /\ mutex_lock(0, "timers")
    /\ due' = n
    /\ lpc' = [lpc EXCEPT ![0] = "fire"]
    /\ LockFrame

\* edt_fire_timers, a due timer: generate, push_event: mutex_lock(queue_mutex)
EdtFirePushLock ==
    /\ lpc[0] = "fire"
    /\ due > 0
    /\ mutex_lock(0, "queue")
    /\ lpc' = [lpc EXCEPT ![0] = "fire_push"]
    /\ UNCHANGED due
    /\ LockFrame

\* push_event called from edt_fire_timers: mutex_unlock(queue_mutex)
EdtFirePushUnlock ==
    /\ lpc[0] = "fire_push"
    /\ mutex_unlock(0, "queue")
    /\ due' = due - 1
    /\ lpc' = [lpc EXCEPT ![0] = "fire"]
    /\ LockFrame

\* edt_fire_timers, after the loop: mutex_unlock(timers_mutex)
EdtFireUnlock ==
    /\ lpc[0] = "fire"
    /\ due = 0
    /\ mutex_unlock(0, "timers")
    /\ lpc' = [lpc EXCEPT ![0] = "run"]
    /\ UNCHANGED due
    /\ LockFrame

\* generate called by task k, push_event: mutex_lock(queue_mutex)
PushEventLock(k) ==
    /\ lpc[k] = "idle"
    /\ mutex_lock(k, "queue")
    /\ lpc' = [lpc EXCEPT ![k] = "push_event"]
    /\ UNCHANGED due
    /\ LockFrame

\* push_event: mutex_unlock(queue_mutex)
PushEventUnlock(k) ==
    /\ lpc[k] = "push_event"
    /\ mutex_unlock(k, "queue")
    /\ lpc' = [lpc EXCEPT ![k] = "idle"]
    /\ UNCHANGED due
    /\ LockFrame

\* the functions that work on the timer table under timers_mutex
TimerCalls == {"delay", "add_timer", "remove_timer", "get_timers"}

\* delay, add_timer, remove_timer, get_timers called by task k:
\* mutex_lock(timers_mutex)
TimerCallLock(k, f) ==
    /\ lpc[k] = "idle"
    /\ mutex_lock(k, "timers")
    /\ lpc' = [lpc EXCEPT ![k] = f]
    /\ UNCHANGED due
    /\ LockFrame

\* the same functions: mutex_unlock(timers_mutex) on each path out
TimerCallUnlock(k) ==
    /\ lpc[k] \in TimerCalls
    /\ mutex_unlock(k, "timers")
    /\ lpc' = [lpc EXCEPT ![k] = "idle"]
    /\ UNCHANGED due
    /\ LockFrame

NextLocks ==
    \/ EdtPollLock
    \/ EdtPollUnlock
    \/ EdtSkipTick
    \/ \E n \in 0..MaxDue : EdtFireLock(n)
    \/ EdtFirePushLock
    \/ EdtFirePushUnlock
    \/ EdtFireUnlock
    \/ \E k \in LockCallers : PushEventLock(k)
    \/ \E k \in LockCallers : PushEventUnlock(k)
    \/ \E k \in LockCallers, f \in TimerCalls : TimerCallLock(k, f)
    \/ \E k \in LockCallers : TimerCallUnlock(k)

\* ------------------------------------------------------------------------
\* Specification of the dispatcher
\* ------------------------------------------------------------------------
EdtStep ==
    \/ EdtStart
    \/ EdtLoop
    \/ EdtUseAfterDispose
    \/ EdtPoll
    \/ EdtInterruptWait
    \/ EdtLookup
    \/ EdtSpawn
    \/ EdtReap
    \/ EdtResume
    \/ EdtTick
    \/ EdtCleanupCurrent
    \/ EdtDisposeWait
    \/ EdtCleanupInterrupted
    \/ EdtCleanupRest

HandlerStep(c) ==
    \/ HStart(c)
    \/ HAck(c)
    \/ HResume(c)
    \/ HReturn(c)
    \/ HQuit(c)

QuitStep(k) ==
    \/ QuitCheck(k)
    \/ QuitRequest(k)
    \/ QuitJoin(k)

\* the life of the runtime from init to quit, with the events of one topic
\* (SpecSubscribe has the events and the subscriptions of several topics)
Next ==
    \/ EventInit
    \/ Subscribe(1)
    \/ Unsubscribe(1)
    \/ \E p \in Prios : Generate(1, p)
    \/ EdtStep
    \/ \E c \in EventIds : HandlerStep(c)
    \/ MainQuit
    \/ \E k \in Callers : QuitStep(k)

Spec == Init /\ [][Next]_vars

\* ------------------------------------------------------------------------
\* Specification of the subscriptions: the runtime is running, handlers are
\* subscribed and unsubscribed for the topics of the generated events and for
\* further topics, and the EDT dispatches
\* ------------------------------------------------------------------------
InitSubscribe ==
    /\ status = "RUNNING"
    /\ eventCtx = "live"
    /\ crashed = FALSE
    /\ mainPc = "ready"
    /\ edtPc = "loop"
    /\ polled = 0
    /\ dctx = 0
    /\ queue = <<>>
    /\ ev = <<>>
    /\ handlers = [t \in SubTopics |-> 0]
    /\ current = 0
    /\ interrupted = <<>>
    /\ ctx = [e \in EventIds |-> NoCtx]
    /\ quitPc = [k \in Callers |-> "idle"]
    /\ evDisposed = [e \in EventIds |-> 0]
    /\ discarded = {}
    /\ mutexLive = TRUE
    /\ timers = EmptyMap
    /\ now = 0
    /\ lastTick = 0 - TickResolution
    /\ issued = <<>>
    /\ sched = NoCall
    /\ fate = <<>>
    /\ InitPlugin
    /\ InitLocks

NextSubscribe ==
    \/ \E t \in SubTopics : Subscribe(t)
    \/ \E t \in SubTopics : Unsubscribe(t)
    \/ \E t \in Topics, p \in Prios : Generate(t, p)
    \/ EdtLoop
    \/ EdtPoll
    \/ EdtInterruptWait
    \/ EdtLookup
    \/ EdtSpawn
    \/ EdtReap
    \/ EdtResume
    \/ EdtTick
    \/ \E c \in EventIds : HStart(c)
    \/ \E c \in EventIds : HAck(c)
    \/ \E c \in EventIds : HResume(c)
    \/ \E c \in EventIds : HReturn(c)

SpecSubscribe == InitSubscribe /\ [][NextSubscribe]_vars

\* ------------------------------------------------------------------------
\* Specification of nested preemption: the runtime is running, one handler
\* is subscribed, and as many events as there are handler contexts are
\* generated, each with a priority of its own if the caller so chooses
\* ------------------------------------------------------------------------
PreemptPrios == 1..Cardinality(EventIds)

NextPreempt ==
    \/ Subscribe(1)
    \/ \E p \in PreemptPrios : GenerateBounded(Cardinality(EventIds), 1, p)
    \/ EdtLoop
    \/ EdtPoll
    \/ EdtInterruptWait
    \/ EdtLookup
    \/ EdtSpawn
    \/ EdtReap
    \/ EdtResume
    \/ EdtTick
    \/ \E c \in EventIds : HStart(c)
    \/ \E c \in EventIds : HAck(c)
    \/ \E c \in EventIds : HResume(c)
    \/ \E c \in EventIds : HReturn(c)

SpecPreempt == InitSubscribe /\ [][NextPreempt]_vars

\* ------------------------------------------------------------------------
\* Specification of the timer service: the runtime is running, no handler is
\* subscribed, and timers are created, removed and fired as time passes
\* ------------------------------------------------------------------------
InitTimer ==
    /\ status = "RUNNING"
    /\ eventCtx = "live"
    /\ crashed = FALSE
    /\ mainPc = "ready"
    /\ edtPc = "loop"
    /\ polled = 0
    /\ dctx = 0
    /\ queue = <<>>
    /\ ev = <<>>
    /\ handlers = [t \in Topics |-> 0]
    /\ current = 0
    /\ interrupted = <<>>
    /\ ctx = [e \in EventIds |-> NoCtx]
    /\ quitPc = [k \in Callers |-> "idle"]
    /\ evDisposed = [e \in EventIds |-> 0]
    /\ discarded = {}
    /\ mutexLive = TRUE
    /\ timers = EmptyMap
    /\ now = 0
    /\ lastTick = 0 - TickResolution
    /\ issued = <<>>
    /\ sched = NoCall
    /\ fate = <<>>
    /\ InitPlugin
    /\ InitLocks

TimerIds == 0..(MaxTimerCalls - 1)

NextTimer ==
    \/ \E d \in 1..MaxPeriod, p \in Prios : Delay(d, 1, p)
    \/ \E d \in 1..MaxPeriod, p \in Prios : AddTimer(d, 1, p)
    \/ \E id \in TimerIds : RemoveTimer(id)
    \/ ClockAdvance
    \/ EdtLoop
    \/ EdtPoll
    \/ EdtLookup
    \/ EdtReap
    \/ EdtResume
    \/ EdtTick

SpecTimer == InitTimer /\ [][NextTimer]_vars

\* ------------------------------------------------------------------------
\* Specification of schedule: the runtime is running, no handler is
\* subscribed, and one-shot timers are made by schedule and fired as time
\* passes
\* ------------------------------------------------------------------------
Timestamps == 0..MaxTime

NextSchedule ==
    \/ \E ts \in Timestamps : Schedule(ts, 1, 1)
    \/ ClockAdvance
    \/ EdtLoop
    \/ EdtPoll
    \/ EdtLookup
    \/ EdtReap
    \/ EdtResume
    \/ EdtTick

SpecSchedule == InitTimer /\ [][NextSchedule]_vars

\* ------------------------------------------------------------------------
\* Specification of shutdown: the life of the runtime from init to quit, with
\* one-shot timers in the table when the EDT enters cleanup
\* ------------------------------------------------------------------------
NextShutdown ==
    \/ Next
    \/ Delay(MaxPeriod, 1, 1)

SpecShutdown == Init /\ [][NextShutdown]_vars

\* the lock protocol, on a runtime that is running
SpecLocks == InitTimer /\ [][NextLocks]_vars

TypeOK ==
    /\ status \in {"CREATED", "RUNNING", "STOP_REQUESTED", "STOPPED"}
    /\ eventCtx \in {"null", "live"}
    /\ current \in {0} \cup EventIds
    /\ polled \in {0} \cup EventIds
    /\ DOMAIN timers \subseteq Int
    /\ \A e \in 1..Len(ev) :
         ev[e] = DeletedEvent \/ (ev[e].topic \in Topics /\ ev[e].prio \in Prios)
    /\ now \in 0..MaxTime

\* the same, with the scheduling the threads of the runtime get: the EDT,
\* the handler threads and the callers of quit keep running; every handler
\* body eventually returns or acknowledges a suspend request
Fairness ==
    /\ WF_vars(EdtStep)
    /\ \A c \in EventIds : WF_vars(HStart(c) \/ HAck(c) \/ HResume(c) \/ HReturn(c))
    /\ \A k \in Callers : WF_vars(QuitStep(k))

FairSpec == Spec /\ Fairness

\* ------------------------------------------------------------------------
\* Properties
\* ------------------------------------------------------------------------
\* a handler thread that has not yet read the handler slot finds its own
\* context there
StartedThreadIsCurrent == \A c \in EventIds : ctx[c].th = "created" => current = c

Waiting(e) == \E i \in 1..Len(queue) : queue[i] = e

\* the contexts in the handler slot and on the interrupted stack
SlotAndStack ==
    (IF current # 0 THEN {current} ELSE {})
      \cup {interrupted[i] : i \in 1..Len(interrupted)}

\* C1: when the EDT's poll step dequeues an event, no waiting event has a
\* strictly higher priority; when it dequeues nothing and leaves a running
\* handler in the slot, no waiting event has a strictly higher priority than
\* that handler's event.
C1_HighestPriorityFirst ==
    [][(edtPc = "poll" /\ edtPc' \in {"intr_wait", "lookup", "reap"}) =>
         /\ polled' # 0 =>
              \A i \in 1..Len(queue') : get_priority(queue'[i]) <= get_priority(polled')
         /\ (polled' = 0 /\ current # 0 /\ ctx[current].running) =>
              \A i \in 1..Len(queue') : get_priority(queue'[i]) <= get_priority(current)]_vars

\* C2: an event in the queue or just dequeued whose topic has a handler leads to that
\* handler being called for it, unless quit is called, the topic is
\* unsubscribed, the handler thread cannot be started or the process dies
\* first; and no event's handler is called twice.
C2_HandlerInvokedOnce ==
    /\ \A e \in EventIds :
         ((Waiting(e) \/ polled = e) /\ handlers[ev[e].topic] # 0)
           ~> \/ ctx[e].calls = 1
              \/ status = "STOP_REQUESTED"
              \/ eventCtx # "live"
              \/ crashed
              \/ e \in discarded
              \/ e <= Len(ev) /\ ev[e] # DeletedEvent /\ handlers[ev[e].topic] = 0
              \/ ctx[e].st # "none" /\ ctx[e].th = "nothread"
    /\ [](\A e \in EventIds : ctx[e].calls <= 1)

\* C3: an event the EDT has dequeued and whose topic has no handler at the
\* lookup is deleted by that step, no HandlerContext is made for it, and
\* from then on it stays deleted exactly once and without a context.
C3_NoHandlerDisposedOnce ==
    /\ [][(edtPc = "lookup" /\ edtPc' # "lookup" /\ handlers[ev[polled].topic] = 0) =>
            /\ edtPc' = "reap"
            /\ evDisposed'[polled] = 1
            /\ ctx'[polled].st = "none"
            /\ polled \in discarded']_vars
    /\ [](\A e \in discarded :
            evDisposed[e] = 1 /\ ctx[e].st = "none" /\ ctx[e].th = "nothread")

C3_Witness == \E e \in discarded : evDisposed[e] = 1 /\ edtPc = "poll"

\* the contexts in the handler slot or on the interrupted stack that have
\* not been deleted
LiveContexts == {c \in SlotAndStack : ctx[c].st = "live"}

\* C4 (as claimed): at most one HandlerContext in the slot or on the
\* interrupted stack has running = true.
C4_AtMostOneRunning ==
    Cardinality({c \in LiveContexts : ctx[c].running}) <= 1

\* C4 (amended): at most one HandlerContext in the slot or on the interrupted
\* stack has running = true without having acknowledged suspension.
C4_AtMostOneRunningUnsuspended ==
    Cardinality({c \in LiveContexts : ctx[c].running /\ ~handler_suspended(c)}) <= 1

C4_Witness ==
    /\ interrupted # <<>>
    /\ current # 0
    /\ ctx[current].st = "live" /\ ctx[current].running /\ ctx[current].th = "body"
    /\ ctx[interrupted[1]].running /\ handler_suspended(interrupted[1])

\* the EDT is in a wait loop that only handler c can end
EdtWaitsFor(c) ==
    \/ edtPc = "intr_wait" /\ current = c /\ ~handler_suspended(c)
    \/ edtPc = "cl_wait" /\ dctx = c

\* C5: the EDT is never waiting for a handler that is itself inside quit,
\* waiting to join the EDT.
C5_NoWaitForQuittingHandler ==
    \A c \in EventIds : ~(ctx[c].th = "inquit" /\ quitPc[c] = "join" /\ EdtWaitsFor(c))

\* C6: once a call of quit on a started runtime has returned (the EDT has
\* been joined), the status is STOPPED.
C6_StoppedAfterQuit ==
    \A k \in Callers : (quitPc[k] = "returned" /\ edtPc = "done") => status = "STOPPED"

StatusRank(s) ==
    CASE s = "CREATED" -> 0
      [] s = "RUNNING" -> 1
      [] s = "STOP_REQUESTED" -> 2
      [] s = "STOPPED" -> 3

\* C7: the status never moves back along CREATED, RUNNING, STOP_REQUESTED,
\* STOPPED.
C7_StatusMonotonic == [][StatusRank(status') >= StatusRank(status)]_vars

C7_Witness ==
    /\ status = "STOP_REQUESTED"
    /\ edtPc = "done"
    /\ \E k \in Callers : quitPc[k] = "returned"

\* C8: once a call of quit has returned, the EDT has terminated (or was
\* never created).
C8_EdtTerminatedAfterQuit ==
    \A k \in Callers : quitPc[k] = "returned" => edtPc \in {"nothread", "done"}

\* C9: the id a creator returns is not the id of a timer that was registered
\* when the creator was called.
C9_NewIdNotRegistered ==
    [][Len(issued') > Len(issued) => issued'[Len(issued')] \notin DOMAIN timers]_vars

\* C10: no id is returned twice by the creators.
C10_IdsNeverReturnedAgain ==
    \A i, j \in 1..Len(issued) : i # j => issued[i] # issued[j]

\* C11: a call of schedule with a timestamp in the future registers a
\* one-shot timer whose period is the timestamp minus the current time.
C11_ScheduleRemainingDuration ==
    [][(sched' # sched /\ sched'.ret >= 0) =>
         /\ sched'.ret \in DOMAIN timers'
         /\ ~timers'[sched'.ret].recurring
         /\ timers'[sched'.ret].period = sched'.ts - time_now]_vars

\* C12: a call of schedule with a timestamp that is not in the future
\* returns -1 and leaves the timer table and the ids given out unchanged;
\* and schedule returns -1 for no other timestamp.
C12_SchedulePastRejected ==
    [][sched' # sched =>
         /\ sched'.ts <= time_now => (sched'.ret = 0 - 1 /\ timers' = timers /\ issued' = issued)
         /\ sched'.ret = 0 - 1 => sched'.ts <= time_now]_vars

C12_Witness == sched.ret = 0 - 1 /\ sched.ts = now /\ now > 0 /\ timers # EmptyMap

\* the ids under which the table holds the Timer object s
IdsOf(s) == {id \in DOMAIN timers : timers[id].serial = s}

\* C13: a one-shot timer made by delay and not removed by remove_timer stays
\* in the table until it fires and is never dropped from it without firing;
\* the first tick at which it is due generates its one event and takes it
\* out of the table.
C13_OneShotFiresOnce ==
    /\ [](\A s \in DOMAIN fate :
            fate[s] # "recurring" =>
              /\ fate[s] # "replaced"
              /\ fate[s] = "armed" <=> IdsOf(s) # {}
              /\ Cardinality(IdsOf(s)) <= 1)
    /\ [][(edtPc = "tick" /\ lastTick' # lastTick) =>
            /\ \A id \in DueTimers(now) :
                  ~timers[id].recurring =>
                     (fate'[timers[id].serial] = "fired" /\ IdsOf(timers[id].serial)' = {})
            /\ Len(ev') = Len(ev) + Cardinality(DueTimers(now))
            /\ \A id \in DOMAIN timers \ DueTimers(now) : timers'[id] = timers[id]]_vars

\* C14: the event at the head of the queue, the one the EDT is handed, has
\* the highest priority of the waiting events and, among the waiting events
\* of that priority, is the one pushed first.
C14_QueueTopHighestFifo ==
    queue # <<>> =>
      \A i \in 1..Len(queue) :
        /\ get_priority(queue[i]) <= get_priority(Head(queue))
        /\ get_priority(queue[i]) = get_priority(Head(queue)) => Head(queue) <= queue[i]

\* C15: while the handler B that preempted the handler A has not completed,
\* A is not resumed and does not complete.
C15_PreemptedWaitsForPreemptor ==
    [][\A b \in EventIds :
         (ctx[b].st = "live" /\ ctx[b].running /\ ctx[b].pre # 0
            /\ ctx'[b].st = "live" /\ ctx'[b].running
            /\ handler_suspended(ctx[b].pre)) =>
           (ctx'[ctx[b].pre].ack /\ ctx'[ctx[b].pre].th = "suspended")]_vars

\* C16: after every plugin-manager operation that has returned, every
\* enabled id is a loaded id.
C16_EnabledSubsetLoaded == ~crashed => enabled \subseteq DOMAIN loaded

C16_Witness ==
    /\ ~crashed
    /\ lastOp.op = "enable" /\ lastOp.dev = "throw" /\ lastOp.quit = "throw"
    /\ lastOp.id \notin enabled

\* C17: an unload(id) whose library close succeeds, right after the
\* load that returned id, leaves the loaded set and the enabled set as they
\* were before the load.
C17_LoadUnloadRestores ==
    [][(/\ lastOp.op = "load" /\ lastOp.res = "ok"
        /\ lastOp'.op = "unload" /\ lastOp'.id = lastOp.id
        /\ lastOp'.close = "ok" /\ ~crashed') =>
         (DOMAIN loaded' = snap.loaded /\ enabled' = snap.enabled)]_vars

C17_Witness ==
    /\ ~crashed
    /\ lastOp.op = "unload" /\ lastOp.close = "ok"
    /\ lastOp.afterLoad
    /\ lastOp.id \notin DOMAIN loaded

\* an enable that went through: init_func, the device and property
\* functions and add_commands_func each returned 0 or are not defined
EnableSucceeded(tr) ==
    /\ tr.op = "enable" /\ tr.res = "done"
    /\ tr.init \in {"none", "ok"} /\ tr.dev \in {"none", "ok"} /\ tr.addcmd \in {"none", "ok"}

\* C18: a disable(id) whose quit_func returns 0, right after an enable(id)
\* that succeeded, leaves the loaded set, the enabled set and the command
\* registry as they were before the enable.
C18_EnableDisableRestores ==
    [][(/\ EnableSucceeded(lastOp)
        /\ lastOp'.op = "disable" /\ lastOp'.id = lastOp.id /\ lastOp'.quit = "ok"
        /\ ~crashed') =>
         /\ DOMAIN loaded' = snap.loaded
         /\ enabled' = snap.enabled
         /\ commands' = snap.commands]_vars

\* an enable in which init_func returned 0 and add_commands_func threw
AddCommandsThrew == lastOp.op = "enable" /\ lastOp.init = "ok" /\ lastOp.addcmd = "throw"

\* C19: after an enable in which init_func returned 0 and
\* add_commands_func threw, the plugin is neither enabled nor loaded and the
\* enable has registered none of the commands of its out-collection.
C19_AddCommandsThrowUnloads ==
    (AddCommandsThrew /\ ~crashed) =>
       /\ lastOp.id \notin enabled
       /\ lastOp.id \notin DOMAIN loaded
       /\ commands = snap.commands

\* C20: an unsubscribe of a topic that has a handler leaves that topic
\* without a handler and every other topic with the handler it had; an
\* event whose handler lookup finds its topic without a handler is discarded
\* and no handler context is made or invoked for it.
C20_UnsubscribeClearsTopicOnly ==
    [][/\ \A t \in DOMAIN handlers :
            (handlers[t] # 0 /\ handlers'[t] # handlers[t]) =>
               /\ handlers'[t] = 0
               /\ \A u \in DOMAIN handlers \ {t} : handlers'[u] = handlers[u]
       /\ (edtPc = "lookup" /\ edtPc' # edtPc /\ handlers[ev[polled].topic] = 0) =>
               /\ polled \in discarded'
               /\ edtPc' = "reap"
               /\ ctx' = ctx
               /\ current' = current]_vars

\* the handler of topic 1 was subscribed when the first event was dispatched
\* and has been unsubscribed since: the event that preempted its handler has
\* been discarded, and the handler of topic 2 is still subscribed
C20_Witness ==
    /\ ~crashed
    /\ handlers[1] = 0 /\ handlers[2] # 0
    /\ \E c \in EventIds, e \in discarded :
          /\ c # e
          /\ interrupted = <<c>>
          /\ ctx[c].func # 0 /\ ctx[c].calls = 1
          /\ ctx[e] = NoCtx
          /\ edtPc = "reap"

\* C21: in every interleaving of subscribe and unsubscribe with the EDT, a
\* handler context for which a handler thread has been started holds a
\* non-null handler function.
C21_SpawnedHandlerHasFunction ==
    \A c \in EventIds :
       (ctx[c].st = "live" /\ ctx[c].th # "nothread") => ctx[c].func # 0

\* C22 (as claimed): a task that holds both mutexes acquired the queue lock
\* before the timer lock.
C22_QueueLockBeforeTimerLock ==
    \A t \in LockTasks :
       (Holds(t, "queue") /\ Holds(t, "timers")) => held[t] = <<"queue", "timers">>

\* C22 (amended): a task that holds both mutexes acquired the timer lock
\* before the queue lock; no task acquires the timer lock while it holds the
\* queue lock.
C22_TimerLockBeforeQueueLock ==
    \A t \in LockTasks :
       (Holds(t, "queue") /\ Holds(t, "timers")) => held[t] = <<"timers", "queue">>

C22_Witness ==
    /\ lpc[0] = "fire_push"
    /\ held[0] = <<"timers", "queue">>

\* C23: with a handler in the slot, the poll step of the EDT dequeues the head
\* of the queue exactly when its priority is strictly greater than that of the
\* current handler's event; otherwise the queue is left as it is, no event is
\* handed to dispatch and the current handler is not asked to suspend.
C23_PollPreemptsOnlyHigher ==
    [][(edtPc = "poll" /\ edtPc' # "poll" /\ current # 0 /\ queue # <<>>) =>
         IF get_priority(Head(queue)) > get_priority(current)
         THEN /\ polled' = Head(queue)
              /\ queue' = Tail(queue)
         ELSE /\ queue' = queue
              /\ polled' = 0
              /\ current' = current
              /\ interrupted' = interrupted
              /\ ctx' = ctx
              /\ edtPc' = "reap"]_vars

\* the EDT has polled and left alone an event of the priority of the event
\* being handled
C23_Witness ==
    /\ ~crashed
    /\ edtPc = "reap" /\ polled = 0
    /\ current # 0 /\ ctx[current].th = "body" /\ ~ctx[current].susp
    /\ queue # <<>>
    /\ get_priority(Head(queue)) = get_priority(current)
    /\ interrupted = <<>>

\* the contexts on the interrupted stack
OnStack(st) == {st[i] : i \in 1..Len(st)}

\* C24: every context on the interrupted stack has acknowledged suspension;
\* a context is pushed only when its suspended bit is set, and the bit of a
\* context on the stack is cleared only in the step that pops it from the top.
C24_InterruptedAreSuspended ==
    /\ [](\A c \in OnStack(interrupted) : handler_suspended(c))
    /\ [][\A c \in EventIds :
            /\ (c \notin OnStack(interrupted) /\ c \in OnStack(interrupted')) =>
                  (handler_suspended(c) /\ interrupted' = Append(interrupted, c))
            /\ (c \in OnStack(interrupted) /\ handler_suspended(c) /\ ~ctx'[c].ack) =>
                  /\ c = interrupted[Len(interrupted)]
                  /\ interrupted' = SubSeq(interrupted, 1, Len(interrupted) - 1)
                  /\ (current' = c \/ edtPc = "cl_intr")]_vars

\* a preempted handler waits on the stack while the handler of the event
\* that preempted it runs
C24_Witness ==
    /\ ~crashed
    /\ Len(interrupted) = 1
    /\ handler_suspended(interrupted[1]) /\ ctx[interrupted[1]].th = "suspended"
    /\ current # 0 /\ ctx[current].th = "body"

\* a handler context whose handler has completed (or never started) and
\* which has been disposed
Completed(cs, c) == cs[c].st = "freed" /\ cs[c].th \in {"exit", "nothread"}

C26_QuitNeedsNoCurrentHandler ==
    [][(/\ quitPc[0] = "origin" /\ quitPc'[0] = "join"
        /\ status = "RUNNING" /\ current = 0)
          => (status' = "STOP_REQUESTED" /\ ~crashed')]_vars


\* an enable of a loaded plugin that was not enabled has returned
EnableReturned == lastOp.op = "enable" /\ lastOp.res = "done" /\ ~crashed

\* no function of the plugin after init_func was called in the operation
NoLaterHook(tr) == tr.dev = "-" /\ tr.addcmd = "-"

\* C27: after enable(id) of a loaded plugin that was not enabled, id is in
\* the enabled set only if init_func is not defined or returned 0; if
\* init_func returned non-zero the plugin is loaded, not enabled, and none of
\* the later functions was called; if init_func threw the plugin is neither
\* enabled nor loaded.
C27_InitGatesEnable ==
    EnableReturned =>
       /\ lastOp.id \in enabled => lastOp.init \in {"none", "ok"}
       /\ lastOp.init = "fail" =>
             /\ lastOp.id \in DOMAIN loaded /\ lastOp.id \notin enabled
             /\ NoLaterHook(lastOp)
       /\ lastOp.init = "throw" =>
             (lastOp.id \notin enabled /\ lastOp.id \notin DOMAIN loaded)

\* C27 as the code has it: after init_func threw the plugin is not enabled,
\* none of the later functions was called, and the plugin has left the loaded
\* set exactly when the close of its library succeeded.
C27_InitGatesEnableUnlessCloseFails ==
    EnableReturned =>
       /\ lastOp.id \in enabled => lastOp.init \in {"none", "ok"}
       /\ lastOp.init = "fail" =>
             /\ lastOp.id \in DOMAIN loaded /\ lastOp.id \notin enabled
             /\ NoLaterHook(lastOp)
       /\ lastOp.init = "throw" =>
             /\ lastOp.id \notin enabled
             /\ NoLaterHook(lastOp) /\ lastOp.quit = "-"
             /\ lastOp.close \in {"ok", "throw"}
             /\ lastOp.id \in DOMAIN loaded <=> lastOp.close = "throw"

\* init_func threw in an enable and the library was closed: the plugin is gone
C27_Witness ==
    /\ EnableReturned
    /\ lastOp.init = "throw" /\ lastOp.close = "ok"
    /\ lastOp.id \notin DOMAIN loaded


\* a disable of an enabled plugin has returned
DisableReturned == lastOp.op = "disable" /\ lastOp.quit # "-" /\ ~crashed

\* C28: disable(id) of an enabled plugin takes id out of the enabled set
\* before it calls quit_func, so that is_enabled(id) is false while quit_func
\* runs; after a quit_func that threw or returned non-zero the plugin is not
\* loaded either, after one that returned 0 it is still loaded.
C28_DisableRemovesBeforeQuit ==
    /\ lastOp.quitSeen # "yes"
    /\ DisableReturned =>
          /\ lastOp.id \notin enabled
          /\ lastOp.quit \in {"throw", "fail"} => lastOp.id \notin DOMAIN loaded
          /\ lastOp.quit = "ok" => lastOp.id \in DOMAIN loaded

\* C28 as the code has it: after a quit_func that threw or returned non-zero
\* the plugin has left the loaded set exactly when the close of its library
\* succeeded; after one that returned 0, or without a quit_func, the library
\* is not closed and the plugin is still loaded.
C28_DisableRemovesBeforeQuitUnlessCloseFails ==
    /\ lastOp.quitSeen # "yes"
    /\ DisableReturned =>
          /\ lastOp.id \notin enabled
          /\ lastOp.quit \in {"throw", "fail"} =>
                /\ lastOp.close \in {"ok", "throw"}
                /\ lastOp.id \in DOMAIN loaded <=> lastOp.close = "throw"
          /\ lastOp.quit \in {"ok", "none"} =>
                (lastOp.close = "-" /\ lastOp.id \in DOMAIN loaded)

\* quit_func threw in a disable and saw the plugin not enabled; the library
\* was closed and the plugin is gone
C28_Witness ==
    /\ DisableReturned
    /\ lastOp.quit = "throw" /\ lastOp.quitSeen = "no"
    /\ lastOp.close = "ok"
    /\ lastOp.id \notin DOMAIN loaded


\* C29: the wait of edt_interrupt_handler for a handler that has returned
\* without acknowledging the suspension request (running is false, or its
\* thread was never started) comes to an end, unless the process dies.
C29_InterruptWaitEndsOnReturn ==
    \A c \in EventIds :
       (edtPc = "intr_wait" /\ current = c /\ ~ctx[c].running /\ ~handler_suspended(c))
          ~> (edtPc # "intr_wait" \/ crashed)


\* C30: every HandlerContext the EDT has created is deleted exactly once,
\* by the EDT or by the handler body: it is never deleted twice, and it is
\* deleted in the end unless the process dies.
C30_ContextDisposedOnce ==
    /\ [](\A c \in EventIds : ctx[c].frees <= 1)
    /\ \A c \in EventIds : (ctx[c].st = "live") ~> (ctx[c].st = "freed" \/ crashed)


\* C31: an unload(id) of a plugin loaded with a valid entry, in which no
\* close of the library failed, the unload of an enabled plugin whose quit_func throws or returns
\* non-zero included, closes the library and releases the entry once: the
\* process survives it and id is afterwards neither loaded nor enabled.
C31_UnloadReleasesOnce ==
    [][(/\ ~crashed
        /\ lastOp'.op = "unload" /\ lastOp'.id \in DOMAIN loaded
        /\ loaded[lastOp'.id] = "entry"
        /\ lastOp'.close # "throw") =>
          /\ ~crashed'
          /\ lastOp'.id \notin DOMAIN loaded'
          /\ lastOp'.id \notin enabled']_vars


\* the EDT is inside an iteration of its loop, on a dispatch context that
\* exists
InLoop ==
    /\ ~crashed
    /\ eventCtx = "live"
    /\ edtPc \in {"poll", "intr_wait", "lookup", "spawn", "reap", "resume", "tick"}

\* C32: while the EDT is in its loop, the event priorities strictly increase
\* from the bottom of the interrupted stack to its top, the priority of the
\* current handler's event is strictly greater than that of the top of the
\* stack, and at the start of an iteration an empty handler slot goes with
\* an empty stack.
C32_StackPrioritiesIncrease ==
    InLoop =>
       /\ \A i \in 1..(Len(interrupted) - 1) :
             get_priority(interrupted[i]) < get_priority(interrupted[i + 1])
       /\ (current # 0 /\ interrupted # <<>>) =>
             get_priority(current) > get_priority(Preempted)
       /\ (edtPc = "poll" /\ current = 0) => interrupted = <<>>

\* two handlers are on the interrupted stack under a third
C32_Witness ==
    /\ InLoop
    /\ Len(interrupted) = 2
    /\ current # 0 /\ ctx[current].running

====
